---------------------------- MODULE Spec2Model ----------------------------
(***************************************************************************)
(* A model of ishu, a file-per-record issue tracker (src/ishu).            *)
(*                                                                         *)
(* The record store is the directory tree .ishu/user-<u>/issue-<n>/issue,  *)
(* the registry file .ishu/registered_tags and the comment files beside    *)
(* each issue.  Every command function of the CLI is one action: it        *)
(* resolves its issue references, loads the records, mutates and saves.    *)
(* The two tag commands that ask for a confirmation are several: one up    *)
(* to the first input(), one for each answer typed, and other commands     *)
(* may run on the same store while they wait.                              *)
(*                                                                         *)
(* Time is read in two ways: datetime.now(timezone.utc) for the creation   *)
(* of issues and comments, the naive local datetime.now() for `updated`    *)
(* and the log; both are written with the same format, ending in Z.        *)
(*                                                                         *)
(* Strings the code takes apart (user names, issue references) are         *)
(* sequences of one-character strings; strings it only compares            *)
(* (descriptions, tags, messages) are TLA+ strings.                        *)
(***************************************************************************)
EXTENDS Integers, Sequences, FiniteSets, Bags, TLC

VARIABLES
    user,        \* Config.user: the acting user (~/.config/ishu.conf)
    issues,      \* the issue files: IssueID -> the JSON document stored there
    comments,    \* the comment files: a set of [issue, stamp, suffix, doc]
    tags_file,   \* whether .ishu/registered_tags exists
    registry,    \* the JSON array stored in registered_tags, as a set
    clock,       \* the wall clock: the seconds of UTC, whole
    zone,        \* the seconds local time is ahead of UTC where commands run
    waiting,     \* the tag commands waiting in input(), each with what it loaded
    last         \* what the last command did and printed

vars == <<user, issues, comments, tags_file, registry, clock, zone, waiting, last>>

store == <<issues, comments, tags_file, registry>>

-----------------------------------------------------------------------------
(* Bounds of the model.                                                    *)

\* Longest user name drawn in the identifier specification.
MaxNameLen == 3
\* Most user directories drawn in the identifier specification.
MaxUsers == 2
\* Most issue files, log entries and comment files the store may hold.
MaxFiles == 3
\* Latest second the clock reaches.
MaxClock == 1
\* Most tag commands waiting at a prompt at once.
MaxWaiting == 2

\* the largest issue number of a user in the stores drawn for the resolver
MaxNum == 10

\* the most files the store holds where the behaviours of interest need four
MaxStore == 5

-----------------------------------------------------------------------------
(* Characters and strings.                                                 *)

Letters == {"a", "b"}

DigitChars == <<"0", "1", "2", "3", "4", "5", "6", "7", "8", "9">>

Digits == {DigitChars[i] : i \in 1..10}

DigitVal(c) == (CHOOSE i \in 1..10 : DigitChars[i] = c) - 1

IsPrefix(p, s) == Len(p) <= Len(s) /\ SubSeq(s, 1, Len(p)) = p

\* str.startswith
startswith(s, p) == IsPrefix(p, s)

\* f'{num}' for a non-negative integer
RECURSIVE IntToStr(_)
IntToStr(n) ==
    IF n < 10 THEN <<DigitChars[n + 1]>>
    ELSE IntToStr(n \div 10) \o <<DigitChars[(n % 10) + 1]>>

\* the value of a non-empty run of decimal digits
RECURSIVE DigitsToInt(_)
DigitsToInt(s) ==
    IF Len(s) = 0 THEN 0
    ELSE 10 * DigitsToInt(SubSeq(s, 1, Len(s) - 1)) + DigitVal(s[Len(s)])

AllIn(s, S) == \A i \in 1..Len(s) : s[i] \in S

\* str.strip() of blanks
RECURSIVE Strip(_)
Strip(s) ==
    IF Len(s) > 0 /\ s[1] = " " THEN Strip(Tail(s))
    ELSE IF Len(s) > 0 /\ s[Len(s)] = " " THEN Strip(SubSeq(s, 1, Len(s) - 1))
    ELSE s

\* the digits of an int() literal body: digits, single underscores between them
IsIntBody(s) ==
    /\ Len(s) > 0
    /\ AllIn(s, Digits \cup {"_"})
    /\ s[1] # "_" /\ s[Len(s)] # "_"
    /\ \A i \in 1..(Len(s) - 1) : ~(s[i] = "_" /\ s[i + 1] = "_")

DropUnderscores(s) == SelectSeq(s, LAMBDA c : c # "_")

NoInt == [ok |-> FALSE, val |-> 0]

\* Python's int(text): blanks around, an optional sign, decimal digits
PyInt(text) ==
    LET s    == Strip(text)
        sign == IF Len(s) > 0 /\ s[1] \in {"+", "-"} THEN s[1] ELSE ""
        body == IF sign = "" THEN s ELSE Tail(s)
    IN  IF ~IsIntBody(body) THEN NoInt
        ELSE [ok  |-> TRUE,
              val |-> IF sign = "-" THEN 0 - DigitsToInt(DropUnderscores(body))
                      ELSE DigitsToInt(DropUnderscores(body))]


-----------------------------------------------------------------------------
(* Values of the domain.                                                   *)

\* the descriptions and comment messages typed on the command line
Descriptions == {"d1", "d2"}

Messages == {"m1"}

\* the tag names typed on the command line, in alphabetical order
TagOrder == <<"bug", "ui">>

Tags == {TagOrder[i] : i \in 1..Len(TagOrder)}

\* sorted(tags): the JSON array a set of tags is stored as
sorted(S) == SelectSeq(TagOrder, LAMBDA t : t \in S)

Range(s) == {s[i] : i \in 1..Len(s)}

\* IssueStatus: the members and the values they are stored as
IssueStatus == {"OPEN", "CLOSED", "FIXED", "WONTFIX"}

StatusValue(status) ==
    CASE status = "OPEN"    -> "open"
      [] status = "CLOSED"  -> "closed"
      [] status = "FIXED"   -> "fixed"
      [] status = "WONTFIX" -> "wontfix"

\* IssueStatus(value)
StatusOf(value) == CHOOSE status \in IssueStatus : StatusValue(status) = value

\* IssueID(user, num)
IssueID(u, n) == [user |-> u, num |-> n]

NoId == IssueID(<<>>, 0)

\* encode_blocks: the JSON objects a set of IssueIDs is stored as
encode_blocks(blocks) == {[id |-> b.num, user |-> b.user] : b \in blocks}

\* the set of IssueIDs read back from the stored objects
decode_blocks(objs) == {IssueID(i.user, i.id) : i \in objs}

-----------------------------------------------------------------------------
(* The filesystem tree (src/ishu/common.py).                               *)

\* issue_path(user, num).exists()
issue_exists(u, n) == IssueID(u, n) \in DOMAIN issues

\* usernames(): the user-* directories; one exists once it holds an issue
usernames == {id.user : id \in DOMAIN issues}

\* the issue files, log entries and comment files the store holds
RECURSIVE LogTotal(_)
LogTotal(ids) ==
    IF ids = {} THEN 0
    ELSE LET id == CHOOSE x \in ids : TRUE
         IN  Len(issues[id].log) + LogTotal(ids \ {id})

StoreSize == Cardinality(DOMAIN issues) + LogTotal(DOMAIN issues)
             + Cardinality(comments)

-----------------------------------------------------------------------------
(* IssueID (src/ishu/models.py).                                           *)

Min(S) == CHOOSE x \in S : \A y \in S : x <= y

Max(S) == CHOOSE x \in S : \A y \in S : x >= y

\* the known users a prefix may stand for
matches(users, prefix) == {u \in users : startswith(u, prefix)}

\* IssueID.shorten once the id is not the acting user's: the prefix lengths tried
shorten_lengths(self) == 1..(Len(self.user) - 2)

\* a prefix taken without counting the users it may stand for
stands_for_one_unchecked(users, prefix) == TRUE

\* len(matches) == 1 (models.py 26-27)
stands_for_one(users, prefix) == Cardinality(matches(users, prefix)) = 1

\* IssueID.shorten: the abbreviated reference shown for an id
IssueID_shorten(self, cfg_user, users) ==
    LET unique == {i \in shorten_lengths(self) :
                      stands_for_one(users, SubSeq(self.user, 1, i))}
        prefix == IF self.user = cfg_user THEN <<>>
                  ELSE IF unique = {} THEN self.user
                  ELSE SubSeq(self.user, 1, Min(unique))
    IN  prefix \o IntToStr(self.num)

Failure(e) == [ok |-> FALSE, id |-> NoId, err |-> e, candidates |-> {}]

\* the number of leading letters of a reference: the group (?P<user>[a-zA-Z]+)?
LetterLen(s) ==
    CHOOSE k \in 0..Len(s) :
        /\ \A i \in 1..k : s[i] \in Letters
        /\ (k = Len(s) \/ s[k + 1] \notin Letters)

\* a resolution that would take one of several candidates
resolve_user_any(cfg_user, users, user_match) ==
    LET candidates == matches(users, user_match)
    IN  IF user_match = <<>> THEN [ok |-> TRUE, user |-> cfg_user]
        ELSE IF user_match \in users THEN [ok |-> TRUE, user |-> user_match]
        ELSE IF candidates = {} THEN Failure("UnknownUser")
        ELSE [ok |-> TRUE, user |-> CHOOSE u \in candidates : TRUE]

\* a resolution that would not look for the prefix among the users first
resolve_user_by_prefix(cfg_user, users, user_match) ==
    LET candidates == matches(users, user_match)
    IN  IF user_match = <<>> THEN [ok |-> TRUE, user |-> cfg_user]
        ELSE IF candidates = {} THEN Failure("UnknownUser")
        ELSE IF Cardinality(candidates) > 1
             THEN [Failure("AmbiguousUser") EXCEPT !.candidates = candidates]
        ELSE [ok |-> TRUE, user |-> CHOOSE u \in candidates : TRUE]

\* the user a prefix resolves to (models.py 43-55)
resolve_user(cfg_user, users, user_match) ==
    LET candidates == matches(users, user_match)
    IN  IF user_match = <<>> THEN [ok |-> TRUE, user |-> cfg_user]
        ELSE IF user_match \in users THEN [ok |-> TRUE, user |-> user_match]
        ELSE IF candidates = {} THEN Failure("UnknownUser")
        ELSE IF Cardinality(candidates) > 1
             THEN [Failure("AmbiguousUser") EXCEPT !.candidates = candidates]
        ELSE [ok |-> TRUE, user |-> CHOOSE u \in candidates : TRUE]

\* an id returned without looking for its file
check_exists_unchecked(u, n) ==
    [ok |-> TRUE, id |-> IssueID(u, n), err |-> "", candidates |-> {}]

\* the existence check that ends IssueID.load (models.py 60-62)
check_exists(u, n) ==
    IF issue_exists(u, n)
    THEN [ok |-> TRUE, id |-> IssueID(u, n), err |-> "", candidates |-> {}]
    ELSE Failure("NotFound")

\* IssueID.load: resolve a typed reference to the id of a stored issue
IssueID_load(cfg_user, abbr_id, restrict_to_own) ==
    IF ~restrict_to_own
    THEN LET k    == LetterLen(abbr_id)
             num  == SubSeq(abbr_id, k + 1, Len(abbr_id))
             who  == resolve_user(cfg_user, usernames, SubSeq(abbr_id, 1, k))
         IN  IF ~(Len(num) > 0 /\ AllIn(num, Digits)) THEN Failure("InvalidFormat")
             ELSE IF ~who.ok THEN who
             ELSE check_exists(who.user, DigitsToInt(num))
    ELSE LET n == PyInt(abbr_id)
         IN  IF ~n.ok THEN Failure("InvalidFormat")
             ELSE check_exists(cfg_user, n.val)

\* a reading of the argument that would take any user's issue for the
\* command's own
arg_issue_id_of_anyone(abbr_id, restrict_to_own) == IssueID_load(user, abbr_id, FALSE)

\* _arg_issue_id: a failure to resolve ends the command with the error
arg_issue_id(abbr_id, restrict_to_own) == IssueID_load(user, abbr_id, restrict_to_own)

-----------------------------------------------------------------------------
(* Comment and Issue (src/ishu/models.py).                                 *)

\* the comment files in the directory of an issue
comment_paths(id) == {f \in comments : f.issue = id}

\* Comment.load: the Comment a file holds
Comment_load(f) ==
    [issue_id |-> IssueID(f.doc.issue_id.user, f.doc.issue_id.num),
     user     |-> f.doc.user,
     created  |-> f.doc.created,
     message  |-> f.doc.message]

\* the Comments loaded from the files created in one second, each with the
\* number of files that hold it: glob yields them in the order of the
\* directory, which the store does not keep
created_at(files, t) ==
    LET at == {f \in files : f.doc.created = t}
    IN  [c \in {Comment_load(f) : f \in at} |->
            Cardinality({f \in at : Comment_load(f) = c})]

\* sorted((Comment.load(p) for p in glob), key=created): the Comments by
\* ascending created, those of one second together
RECURSIVE SortByCreated(_)
SortByCreated(files) ==
    IF files = {} THEN <<>>
    ELSE LET t == Min({f.doc.created : f \in files})
         IN  <<created_at(files, t)>>
                \o SortByCreated({f \in files : f.doc.created # t})

\* a save that would always write the file name without a suffix
Comment_save_unsuffixed(self) ==
    [issue  |-> self.issue_id,
     stamp  |-> self.created,
     suffix |-> 0,
     doc    |-> [issue_id |-> [user |-> self.issue_id.user,
                               num  |-> IntToStr(self.issue_id.num)],
                 user     |-> self.user,
                 created  |-> self.created,
                 message  |-> self.message]]

\* Comment.save: the first unused file name comment-<stamp>[-<suffix>]
Comment_save(self) ==
    LET taken  == {f.suffix : f \in {g \in comment_paths(self.issue_id) :
                                          g.stamp = self.created}}
        suffix == Min({n \in 0..Cardinality(taken) : n \notin taken})
    IN  [issue  |-> self.issue_id,
         stamp  |-> self.created,
         suffix |-> suffix,
         doc    |-> [issue_id |-> [user |-> self.issue_id.user,
                                   num  |-> IntToStr(self.issue_id.num)],
                     user     |-> self.user,
                     created  |-> self.created,
                     message  |-> self.message]]

\* Issue.load: the in-memory Issue of a stored document, with its snapshot
Issue_load(id) ==
    LET data == issues[id]
    IN  [id_                  |-> IssueID(data.user, data.id),
         created              |-> data.created,
         updated              |-> data.updated,
         description          |-> data.description,
         tags                 |-> Range(data.tags),
         blocked_by           |-> decode_blocks(data.blocked_by),
         comments             |-> SortByCreated(comment_paths(id)),
         status               |-> StatusOf(data.status),
         log                  |-> data.log,
         original_description |-> data.description,
         original_tags        |-> Range(data.tags),
         original_blocked_by  |-> decode_blocks(data.blocked_by),
         original_status      |-> StatusOf(data.status)]

\* load_issues(): every stored issue (user given: only that user's)
load_issues == {Issue_load(id) : id \in DOMAIN issues}

load_issues_of(u) == {Issue_load(id) : id \in {x \in DOMAIN issues : x.user = u}}

LogFields == {"description", "tags", "blocked_by", "status"}

\* the fields Issue.save finds changed against the snapshot taken at load
changed_fields(self) ==
    {k \in LogFields :
        \/ k = "description" /\ self.description # self.original_description
        \/ k = "tags"        /\ self.tags # self.original_tags
        \/ k = "blocked_by"  /\ self.blocked_by # self.original_blocked_by
        \/ k = "status"      /\ self.status # self.original_status}

\* log_diff, were it to record the value being saved
log_diff_of_new(self, now) ==
    [k \in changed_fields(self) \cup {"timestamp"} |->
        CASE k = "description" -> self.description
          [] k = "tags"        -> sorted(self.tags)
          [] k = "blocked_by"  -> encode_blocks(self.blocked_by)
          [] k = "status"      -> StatusValue(self.status)
          [] k = "timestamp"   -> now]

\* log_diff: the previous value of each changed field, and the time
log_diff(self, now) ==
    [k \in changed_fields(self) \cup {"timestamp"} |->
        CASE k = "description" -> self.original_description
          [] k = "tags"        -> sorted(self.original_tags)
          [] k = "blocked_by"  -> encode_blocks(self.original_blocked_by)
          [] k = "status"      -> StatusValue(self.original_status)
          [] k = "timestamp"   -> now]

\* a log that would keep its latest entry only
saved_log_latest(self, now) ==
    IF changed_fields(self) # {} THEN <<log_diff(self, now)>>
    ELSE self.log

\* the log Issue.save stores
saved_log(self, now) ==
    IF changed_fields(self) # {} THEN Append(self.log, log_diff(self, now))
    ELSE self.log

\* Issue.save: the JSON document written to the issue file
Issue_save(self, now) ==
    [id          |-> self.id_.num,
     user        |-> self.id_.user,
     created     |-> self.created,
     updated     |-> now,
     description |-> self.description,
     tags        |-> sorted(self.tags),
     blocked_by  |-> encode_blocks(self.blocked_by),
     status      |-> StatusValue(self.status),
     log         |-> saved_log(self, now)]

\* the issue files after saving the Issues of a set (one file per id), the
\* datetime.now() of each save giving now[id]
write_issues(S, now) ==
    [id \in DOMAIN issues \cup {i.id_ : i \in S} |->
        IF \E i \in S : i.id_ = id
        THEN Issue_save(CHOOSE i \in S : i.id_ = id, now[id])
        ELSE issues[id]]

-----------------------------------------------------------------------------
(* The commands (src/ishu/ishu.py).  Each action is one call of a command  *)
(* function, cmd_<name>(config, args), made as the callback of main makes  *)
(* it (ishu.py 918-927).  main itself reads config.aliases (ishu.py 929),  *)
(* an attribute the class Config of common.py does not have, before it     *)
(* dispatches: the commands are modelled as called, not as started.        *)

\* what a command reports: its name, its outcome, the issue files it wrote
\* and the tags it asked a confirmation for, in the order asked
Done(op, result, saved, prompts) ==
    [op |-> op, result |-> result, saved |-> saved, prompts |-> prompts]

\* the command prints a message (an error, or that nothing changed) and
\* ends with nothing written
Reports(op, err) ==
    /\ last' = Done(op, err, {}, <<>>)
    /\ UNCHANGED <<user, issues, comments, tags_file, registry, clock, zone, waiting>>

\* datetime.now() (models.py 188): the naive local time at UTC second t
local_now(t) == t + zone

\* issue.save() of the Issue a command saves, at UTC second t
Saves(S, t) == issues' = write_issues(S, [id \in {i.id_ : i \in S} |-> local_now(t)])

\* no tag command waits for an answer
NoWait == EmptyBag

\* cmd_configure --set user <value>, with a config: the command reads
\* Config.editable_settings (ishu.py 204), which the class Config
\* (common.py 140-172) does not have, and ends there with the
\* AttributeError: the value is not looked at and nothing is saved
cmd_configure(value) == Reports("conf", "AttributeError")

\* Config.load, in the home directory the next command is run from: the
\* store is shared, ~/.config/ishu.conf is each user's own
Config_load(name) ==
    /\ user' = name
    /\ last' = Done("home", "", {}, <<>>)
    /\ UNCHANGED <<issues, comments, tags_file, registry, clock, zone, waiting>>

\* the Issue cmd_open would build, were it to number after every user's issues
new_issue_after_all(description, tags, blocked_by) ==
    LET new_id_num == Max({i.id_.num : i \in load_issues} \cup {0})
    IN  [id_                  |-> IssueID(user, new_id_num + 1),
         created              |-> clock,
         updated              |-> clock,
         description          |-> description,
         tags                 |-> tags,
         blocked_by           |-> blocked_by,
         comments             |-> <<>>,
         status               |-> "OPEN",
         log                  |-> <<>>,
         original_description |-> description,
         original_tags        |-> tags,
         original_blocked_by  |-> blocked_by,
         original_status      |-> "OPEN"]

\* the Issue cmd_open would build, were it to take the largest number as it is
new_issue_at_max(description, tags, blocked_by) ==
    LET new_id_num == Max({i.id_.num : i \in load_issues_of(user)} \cup {0})
    IN  [id_                  |-> IssueID(user, new_id_num),
         created              |-> clock,
         updated              |-> clock,
         description          |-> description,
         tags                 |-> tags,
         blocked_by           |-> blocked_by,
         comments             |-> <<>>,
         status               |-> "OPEN",
         log                  |-> <<>>,
         original_description |-> description,
         original_tags        |-> tags,
         original_blocked_by  |-> blocked_by,
         original_status      |-> "OPEN"]

\* the Issue cmd_open builds (ishu.py 272-287)
new_issue(description, tags, blocked_by) ==
    LET new_id_num == Max({i.id_.num : i \in load_issues_of(user)} \cup {0})
    IN  [id_                  |-> IssueID(user, new_id_num + 1),
         created              |-> clock,
         updated              |-> clock,
         description          |-> description,
         tags                 |-> tags,
         blocked_by           |-> blocked_by,
         comments             |-> <<>>,
         status               |-> "OPEN",
         log                  |-> <<>>,
         original_description |-> description,
         original_tags        |-> tags,
         original_blocked_by  |-> blocked_by,
         original_status      |-> "OPEN"]

\* cmd_open: open [-t <tag>...] [-b <id>...] <description>; `late` is the
\* number of seconds that begin between now = datetime.now(timezone.utc)
\* (ishu.py 274) and the datetime.now() of issue.save() (models.py 188)
cmd_open(description, tags, blocked_by_args, late) ==
    LET ids   == [n \in 1..Len(blocked_by_args) |->
                     arg_issue_id(blocked_by_args[n], FALSE)]
        bad   == {n \in 1..Len(blocked_by_args) : ~ids[n].ok}
        issue == new_issue(description, tags,
                           {ids[n].id : n \in 1..Len(blocked_by_args)})
    IN  IF bad # {} THEN Reports("open", ids[Min(bad)].err)
        ELSE /\ clock + late <= MaxClock
             /\ clock' = clock + late
             /\ Saves({issue}, clock + late)
             /\ last' = Done("open", "opened", {issue.id_}, <<>>)
             /\ UNCHANGED <<user, comments, tags_file, registry, zone, waiting>>

\* the Issue cmd_edit saves (ishu.py 330-340)
edited(issue, description, add_tags, remove_tags) ==
    LET one   == IF description # "" /\ description # issue.description
                 THEN [issue EXCEPT !.description = description] ELSE issue
        two   == IF add_tags # {} /\ ~(add_tags \subseteq one.tags)
                 THEN [one EXCEPT !.tags = @ \cup add_tags] ELSE one
        three == IF remove_tags # {} /\ remove_tags \cap two.tags # {}
                 THEN [two EXCEPT !.tags = @ \ remove_tags] ELSE two
    IN  three

\* whether cmd_edit sets its flag `changed`
edit_changed(issue, description, add_tags, remove_tags) ==
    \/ description # "" /\ description # issue.description
    \/ add_tags # {} /\ ~(add_tags \subseteq issue.tags)
    \/ remove_tags # {} /\ remove_tags \cap (issue.tags \cup add_tags) # {}

\* cmd_edit: edit <id> [-d <description>] [-t <tag>...] [-T <tag>...]
cmd_edit(abbr_id, description, add_tags, remove_tags) ==
    LET issue_id == arg_issue_id(abbr_id, FALSE)
        issue    == Issue_load(issue_id.id)
    IN  IF ~issue_id.ok THEN Reports("edit", issue_id.err)
        ELSE IF ~edit_changed(issue, description, add_tags, remove_tags)
        THEN Reports("edit", "Nothing to update")
        ELSE /\ Saves({edited(issue, description, add_tags, remove_tags)}, clock)
             /\ last' = Done("edit", "Issue edited", {issue_id.id}, <<>>)
             /\ UNCHANGED <<user, comments, tags_file, registry, clock, zone, waiting>>

\* _change_status: comment_text "" stands for no comment
\* a change of status that would not look at the status the issue has
already_unchecked(issue, target_status) == FALSE

\* issue.status == target_status (ishu.py 353)
already(issue, target_status) == issue.status = target_status

\* _change_status (ishu.py 348-361): `late` is the number of seconds that
\* begin between the datetime.now() of issue.save() (models.py 188) and the
\* datetime.now(timezone.utc) of the comment (ishu.py 359), read only when
\* there is a comment
change_status(op, issue_id, target_status, comment_text, late) ==
    LET issue   == Issue_load(issue_id)
        comment == [issue_id |-> issue_id, user |-> user,
                    created |-> clock + late, message |-> comment_text]
    IN  IF already(issue, target_status) THEN Reports(op, "already")
        ELSE /\ Saves({[issue EXCEPT !.status = target_status]}, clock)
             /\ IF comment_text # ""
                THEN /\ clock + late <= MaxClock
                     /\ clock' = clock + late
                     /\ comments' = comments \cup {Comment_save(comment)}
                ELSE /\ late = 0
                     /\ UNCHANGED <<clock, comments>>
             /\ last' = Done(op, "changed", {issue_id}, <<>>)
             /\ UNCHANGED <<user, tags_file, registry, zone, waiting>>

\* cmd_reopen: reopen <id>
cmd_reopen(abbr_id) ==
    LET issue_id == arg_issue_id(abbr_id, FALSE)
    IN  IF ~issue_id.ok THEN Reports("reopen", issue_id.err)
        ELSE change_status("reopen", issue_id.id, "OPEN", "", 0)

\* a fixed that would store the status CLOSED
cmd_fixed_as_closed(abbr_id, comment, late) ==
    LET issue_id == arg_issue_id(abbr_id, FALSE)
    IN  IF ~issue_id.ok THEN Reports("fixed", issue_id.err)
        ELSE change_status("fixed", issue_id.id, "CLOSED", comment, late)

\* cmd_fixed: fixed <id> [<comment>]
cmd_fixed(abbr_id, comment, late) ==
    LET issue_id == arg_issue_id(abbr_id, FALSE)
    IN  IF ~issue_id.ok THEN Reports("fixed", issue_id.err)
        ELSE change_status("fixed", issue_id.id, "FIXED", comment, late)

\* cmd_wontfix: wontfix <id> [<comment>]
cmd_wontfix(abbr_id, comment, late) ==
    LET issue_id == arg_issue_id(abbr_id, FALSE)
    IN  IF ~issue_id.ok THEN Reports("wontfix", issue_id.err)
        ELSE change_status("wontfix", issue_id.id, "WONTFIX", comment, late)

\* the check that an issue is not marked as blocked by itself (ishu.py 442)
self_block_unchecked(blocked_id, blocking_id) == FALSE

self_block(blocked_id, blocking_id) == blocked_id = blocking_id

\* a check that would also look one issue further than the blocking issue
blocking_loop_two_steps(blocked_id, other_issue) ==
    \/ blocked_id \in other_issue.blocked_by
    \/ \E x \in other_issue.blocked_by : blocked_id \in Issue_load(x).blocked_by

\* the loop check of cmd_blocked_by (ishu.py 453)
blocking_loop_unchecked(blocked_id, other_issue) == FALSE

blocking_loop(blocked_id, other_issue) == blocked_id \in other_issue.blocked_by

\* cmd_blocked_by: blocked <blocked-id> <blocking-id>
cmd_blocked_by(blocked_arg, blocking_arg) ==
    LET blocked_id  == arg_issue_id(blocked_arg, TRUE)
        blocking_id == arg_issue_id(blocking_arg, FALSE)
        issue       == Issue_load(blocked_id.id)
        other_issue == Issue_load(blocking_id.id)
    IN  IF ~blocked_id.ok THEN Reports("blocked", blocked_id.err)
        ELSE IF ~blocking_id.ok THEN Reports("blocked", blocking_id.err)
        ELSE IF self_block(blocked_id.id, blocking_id.id)
        THEN Reports("blocked", "SelfBlock")
        ELSE IF blocking_id.id \in issue.blocked_by THEN Reports("blocked", "already")
        ELSE IF blocking_loop(blocked_id.id, other_issue)
        THEN Reports("blocked", "BlockingLoop")
        ELSE /\ Saves({[issue EXCEPT !.blocked_by = @ \cup {blocking_id.id}]}, clock)
             /\ last' = Done("blocked", "blocked", {blocked_id.id}, <<>>)
             /\ UNCHANGED <<user, comments, tags_file, registry, clock, zone, waiting>>

\* an unblock that would clear the whole blocked_by
unblocked_all(issue, blocking_id) == [issue EXCEPT !.blocked_by = {}]

\* issue.blocked_by.remove(blocking_id)
unblocked(issue, blocking_id) == [issue EXCEPT !.blocked_by = @ \ {blocking_id}]

\* cmd_unblock: unblock <blocked-id> <blocking-id>
cmd_unblock(blocked_arg, blocking_arg) ==
    LET blocked_id  == arg_issue_id(blocked_arg, TRUE)
        blocking_id == arg_issue_id(blocking_arg, FALSE)
        issue       == Issue_load(blocked_id.id)
    IN  IF ~blocked_id.ok THEN Reports("unblock", blocked_id.err)
        ELSE IF ~blocking_id.ok THEN Reports("unblock", blocking_id.err)
        ELSE IF self_block(blocked_id.id, blocking_id.id)
        THEN Reports("unblock", "SelfBlock")
        ELSE IF blocking_id.id \notin issue.blocked_by
        THEN Reports("unblock", "not blocked")
        ELSE /\ Saves({unblocked(issue, blocking_id.id)}, clock)
             /\ last' = Done("unblock", "unblocked", {blocked_id.id}, <<>>)
             /\ UNCHANGED <<user, comments, tags_file, registry, clock, zone, waiting>>

\* cmd_comment: comment <id> <message>
cmd_comment(abbr_id, message) ==
    LET issue_id == arg_issue_id(abbr_id, FALSE)
        comment  == [issue_id |-> issue_id.id, user |-> user,
                     created |-> clock, message |-> message]
    IN  IF ~issue_id.ok THEN Reports("comment", issue_id.err)
        ELSE /\ comments' = comments \cup {Comment_save(comment)}
             /\ last' = Done("comment", "Comment added", {}, <<>>)
             /\ UNCHANGED <<user, issues, tags_file, registry, clock, zone, waiting>>

\* a view that would see a closed issue as blocking too
blocking_issues_any_status(all_issues, issue) ==
    {i \in all_issues : i.id_ # issue.id_ /\ issue.id_ \in i.blocked_by}

\* cmd_list: the other issues an open issue is in the blocked_by of
blocking_issues(all_issues, issue) ==
    IF issue.status = "OPEN"
    THEN {i \in all_issues : i.id_ # issue.id_ /\ issue.id_ \in i.blocked_by}
    ELSE {}

\* a filter on tags that would let through an issue with some, not all, of them
passes_without_tags_all(issue, without_tags) ==
    ~(without_tags # {} /\ without_tags \subseteq issue.tags)

\* cmd_list: the filter of --without-tags (ishu.py 608-609)
passes_without_tags(issue, without_tags) ==
    ~(without_tags # {} /\ without_tags \cap issue.tags # {})

\* a filter on status that would compare the status asked for with the
\* issue's, whichever is asked for
passes_status_same(issue, status) == status = "" \/ status = issue.status

\* cmd_list: the filter of --status, "" when none is given (ishu.py 616-622)
passes_status(issue, status) ==
    IF status = "" THEN TRUE
    ELSE IF status = "CLOSED" THEN issue.status # "OPEN"
    ELSE status = issue.status

\* cmd_list: an issue that no filter skips (ishu.py 606-623)
listed(all_issues, issue, a) ==
    /\ ~(a.tags # {} /\ ~(a.tags \subseteq issue.tags))
    /\ passes_without_tags(issue, a.without_tags)
    /\ ~(a.blocking /\ blocking_issues(all_issues, issue) = {})
    /\ ~(a.blocked /\ issue.blocked_by = {})
    /\ ~(a.no_blocks /\ (issue.blocked_by # {} \/ blocking_issues(all_issues, issue) # {}))
    /\ passes_status(issue, a.status)

\* the ids of the rows cmd_list prints, and the ids it marks as blocking
list_rows(a) == {i.id_ : i \in {j \in load_issues : listed(load_issues, j, a)}}

list_is_blocking == {i.id_ : i \in {j \in load_issues : blocking_issues(load_issues, j) # {}}}

\* the arguments of list: a status or none, tags, tags to be without, flags
ListArgs(status, tags, without_tags, blocked, blocking, no_blocks) ==
    [status |-> status, tags |-> tags, without_tags |-> without_tags,
     blocking |-> blocking, blocked |-> blocked, no_blocks |-> no_blocks]

\* cmd_list: list [-s <status>] [-t <tag>...] [-T <tag>...] [-BbnID]
cmd_list(a) ==
    IF a.no_blocks /\ (a.blocked \/ a.blocking) THEN Reports("list", "BadFlags")
    ELSE /\ last' = [op |-> "list", result |-> "listed", saved |-> {}, prompts |-> <<>>,
                     args |-> a, rows |-> list_rows(a), is_blocking |-> list_is_blocking]
         /\ UNCHANGED <<user, issues, comments, tags_file, registry, clock, zone, waiting>>

\* a second of wall-clock time passes between two commands
Tick ==
    /\ clock < MaxClock
    /\ clock' = clock + 1
    /\ last' = Done("tick", "", {}, <<>>)
    /\ UNCHANGED <<user, issues, comments, tags_file, registry, zone, waiting>>

-----------------------------------------------------------------------------
(* cmd_tag (src/ishu/ishu.py 742-868).                                     *)

\* the orders a for loop may visit a set in
Orders(S) == {s \in [1..Cardinality(S) -> S] : Range(s) = S}

\* the issues carrying a tag
matched_issues(all, tag) == {i \in all : tag \in i.tags}

\* the tags of a visiting order whose removal needs a confirmation
asked_tags(all, order) == SelectSeq(order, LAMBDA t : matched_issues(all, t) # {})

\* the tail of every cmd_tag run that asked nothing and wrote nothing but
\* the registry
tag_done(op, result, new_registry) ==
    /\ tags_file' = TRUE
    /\ registry' = new_registry
    /\ last' = Done(op, result, {}, <<>>)
    /\ UNCHANGED <<user, issues, comments, clock, zone, waiting>>

\* cmd_tag reaches input() (ishu.py 825, 849): the process holds the issues
\* and the registry it loaded (ishu.py 776-783), keeps the time zone it was
\* started in, and waits for the answer to its first question; other
\* commands run meanwhile, and may come to wait too
tag_asks(op, all, matched_tags, new_name, asked) ==
    /\ tags_file' = TRUE
    /\ waiting' = waiting (+) SetToBag({
                      [op |-> op, issues |-> all, tag_registry |-> registry,
                       matched_tags |-> matched_tags, new_name |-> new_name,
                       asked |-> asked, k |-> 1, zone |-> zone]})
    /\ last' = Done(op, "asked", {}, <<asked[1]>>)
    /\ UNCHANGED <<user, issues, comments, registry, clock, zone>>

\* cmd_tag --add <tag>...
cmd_tag_add(add_tags) ==
    LET new_tags == add_tags \ registry
    IN  /\ add_tags # {}
        /\ IF new_tags # {}
           THEN tag_done("tag add", "added", registry \cup add_tags)
           ELSE tag_done("tag add", "nothing added", registry)

\* str.lower, on the answers typed
lower(response) ==
    CASE response = "Y"   -> "y"
      [] response = "Yes" -> "yes"
      [] OTHER            -> response

\* a prompt that would take any answer for a yes
declined_unchecked(response) == FALSE

\* response.lower() not in {'y', 'yes'} (ishu.py 827, 853)
declined(response) == lower(response) \notin {"y", "yes"}

\* a removal that would save every issue, carrying a matched tag or not
untagged_every(all, matched_tags) == {[i EXCEPT !.tags = @ \ matched_tags] : i \in all}

\* the Issues a confirmed removal saves (ishu.py 833-837)
untagged(all, matched_tags) ==
    {[i EXCEPT !.tags = @ \ matched_tags] : i \in {j \in all : matched_tags \cap j.tags # {}}}

\* cmd_tag --remove <tag>..., from its start to its first input() or, when
\* it asks nothing, to its end: `order` is the order the loop visits the
\* matched tags in
cmd_tag_remove(remove_tags, order) ==
    LET all          == load_issues
        matched_tags == remove_tags \cap registry
        asked        == asked_tags(all, order)
    IN  /\ remove_tags # {}
        /\ order \in Orders(matched_tags)
        /\ IF matched_tags = {}
           THEN tag_done("tag remove", "nothing removed", registry)
           ELSE IF asked # <<>>
           THEN tag_asks("tag remove", all, matched_tags, "", asked)
           ELSE tag_done("tag remove", "removed", registry \ matched_tags)

\* a rename that would add the new name and keep the old one
retagged_keeping_old(all, old_name, new_name) ==
    {[i EXCEPT !.tags = @ \cup {new_name}] : i \in matched_issues(all, old_name)}

\* the Issues a confirmed rename saves (ishu.py 857-860)
retagged(all, old_name, new_name) ==
    {[i EXCEPT !.tags = (@ \ {old_name}) \cup {new_name}] :
        i \in matched_issues(all, old_name)}

\* a rename that would not look for the new name in the registry
rename_error_new_unchecked(old_name, new_name) ==
    IF old_name = new_name THEN "SameName"
    ELSE IF old_name \notin registry THEN "UnknownTag"
    ELSE ""

\* the error a rename ends with, "" when there is none (ishu.py 841-846)
rename_error(old_name, new_name) ==
    IF old_name = new_name THEN "SameName"
    ELSE IF old_name \notin registry THEN "UnknownTag"
    ELSE IF new_name \in registry THEN "TagExists"
    ELSE ""

\* the digit a character stands for
DigitOf(c) == CHOOSE d \in 0..9 : DigitChars[d + 1] = c

\* the order of sorted() on the paths issue-<n> of one directory: that of
\* their names as strings, issue-10 before issue-2
path_before(m, n) ==
    LET s == IntToStr(m)
        t == IntToStr(n)
    IN  \E k \in 1..Len(t) :
           /\ \A j \in 1..(k - 1) : j <= Len(s) /\ s[j] = t[j]
           /\ (k > Len(s) \/ (k <= Len(s) /\ DigitOf(s[k]) < DigitOf(t[k])))

\* sorted(userdir.iterdir()): the issues of one user, by path
RECURSIVE sorted_paths(_)
sorted_paths(ids) ==
    IF ids = {} THEN <<>>
    ELSE LET first == CHOOSE a \in ids :
                         \A b \in ids \ {a} : path_before(a.num, b.num)
         IN  <<first>> \o sorted_paths(ids \ {first})

\* the issues of the user directories, in the order glob yields the directories
RECURSIVE extended(_, _)
extended(ids, userdirs) ==
    IF userdirs = <<>> THEN <<>>
    ELSE sorted_paths({id \in ids : id.user = Head(userdirs)})
            \o extended(ids, Tail(userdirs))

\* the orders load_issues() may yield issues in: the user directories as glob
\* yields them, the issues of each sorted by path (models.py 219-229)
load_orders(ids) == {extended(ids, userdirs) : userdirs \in Orders({id.user : id \in ids})}

\* the seconds that may begin between one reading of the clock and the next
Lates == 0..1

\* late[id] is the number of seconds begun, since the first issue.save() of
\* a command, when the issue id is saved: each issue.save() reads
\* datetime.now() (models.py 188), one after the other in the order loaded
in_turn(late, order) ==
    /\ order # <<>> => late[order[1]] = 0
    /\ \A n \in 1..(Len(order) - 1) : late[order[n + 1]] - late[order[n]] \in Lates

\* the Issues the waiting command w saves when its questions are all
\* answered yes (ishu.py 833-837, 857-860)
tag_modified(w) ==
    IF w.op = "tag remove" THEN untagged(w.issues, w.matched_tags)
    ELSE retagged(w.issues, CHOOSE t \in w.matched_tags : TRUE, w.new_name)

saved_ids(w) == {i.id_ : i \in tag_modified(w)}

\* the tail of a cmd_tag run that saves issues: the Issues held in memory
\* are written over the files one after the other, then the registry held
\* in memory is (ishu.py 831-837, 857-868)
tag_saves(w, result, new_registry, late) ==
    LET ids == saved_ids(w)
        end == Max({late[id] : id \in ids} \cup {0})
    IN  /\ DOMAIN late = ids
        /\ \E order \in load_orders(ids) : in_turn(late, order)
        /\ clock + end <= MaxClock
        /\ clock' = clock + end
        /\ issues' = write_issues(tag_modified(w),
                                  [id \in ids |-> clock + late[id] + w.zone])
        /\ tags_file' = TRUE
        /\ registry' = new_registry
        /\ waiting' = waiting (-) SetToBag({w})
        /\ last' = Done(w.op, result, ids, SubSeq(w.asked, 1, w.k))
        /\ UNCHANGED <<user, comments, zone>>

\* cmd_tag --edit <oldtag> <newtag>, from its start to its input() or, when
\* it asks nothing, to its end
cmd_tag_edit(old_name, new_name) ==
    LET all == load_issues
    IN  IF rename_error(old_name, new_name) # ""
        THEN tag_done("tag edit", rename_error(old_name, new_name), registry)
        ELSE IF matched_issues(all, old_name) # {}
        THEN tag_asks("tag edit", all, {old_name}, new_name, <<old_name>>)
        ELSE tag_done("tag edit", "renamed", (registry \ {old_name}) \cup {new_name})

\* what the waiting cmd_tag w does with the answer typed: a no ends it with
\* nothing written (ishu.py 827-829, 853-855), a yes brings the next question
\* or, after the last one, the saving of what the command holds in memory
tag_answer(w, response, late) ==
    /\ BagIn(w, waiting)
    /\ IF declined(response)
       THEN /\ waiting' = waiting (-) SetToBag({w})
            /\ last' = Done(w.op, "aborted", {}, SubSeq(w.asked, 1, w.k))
            /\ UNCHANGED <<user, issues, comments, tags_file, registry, clock, zone>>
       ELSE IF w.k < Len(w.asked)
       THEN /\ waiting' = (waiting (-) SetToBag({w}))
                              (+) SetToBag({[w EXCEPT !.k = @ + 1]})
            /\ last' = Done(w.op, "asked", {}, SubSeq(w.asked, 1, w.k + 1))
            /\ UNCHANGED <<user, issues, comments, tags_file, registry, clock, zone>>
       ELSE IF w.op = "tag remove"
       THEN tag_saves(w, "removed", w.tag_registry \ w.matched_tags, late)
       ELSE tag_saves(w, "renamed",
                      (w.tag_registry \ w.matched_tags) \cup {w.new_name}, late)

-----------------------------------------------------------------------------
(* The tracker as a state machine: any command, by any user.               *)

\* the users who run the tracker
UserNames == {<<"a", "b">>, <<"b">>}

\* the issue references typed: no prefix, a unique abbreviation, a full name
Prefixes == {<<>>, <<"a">>, <<"b">>}

Numbers == {<<"1">>, <<"2">>}

Tokens == {p \o n : p \in Prefixes, n \in Numbers}

\* the arguments of open --blocked-by: none, or one reference
BlockArgs == {<<>>} \cup {<<t>> : t \in Tokens}

\* the store stays within the bound of the model
Bounded == StoreSize' <= MaxFiles

\* the wider bound, for issues closed in two ways or blocked in a circle
BoundedStore == StoreSize' <= MaxStore

Init ==
    /\ user \in UserNames
    /\ issues = <<>>
    /\ comments = {}
    /\ tags_file = FALSE
    /\ registry = {}
    /\ clock = 0
    /\ zone = 0
    /\ waiting = NoWait
    /\ last = Done("init", "", {}, <<>>)

Configure == \E u \in UserNames : cmd_configure(u)

\* the next command is run by another user, or by the same
Home == \E u \in UserNames : Config_load(u)

\* the references typed for the blocked side: a number, or a prefixed one
OwnArgs == Numbers \cup {<<"a", "1">>}

BlockedBy == \E a \in OwnArgs, b \in Tokens : cmd_blocked_by(a, b)

Unblock == \E a \in OwnArgs, b \in Tokens : cmd_unblock(a, b)

-----------------------------------------------------------------------------
(* The blocking graph: open, blocked and unblock, by two users, on issues  *)
(* open or closed.                                                         *)

OpenBlocked == \E b \in BlockArgs : cmd_open("d1", {}, b, 0)

WontfixAny == \E a \in Tokens : cmd_wontfix(a, "", 0)

NextBlock ==
    \/ Home
    \/ OpenBlocked /\ Bounded
    \/ BlockedBy /\ Bounded
    \/ Unblock /\ Bounded
    \/ WontfixAny /\ Bounded

SpecBlock == Init /\ [][NextBlock]_vars

-----------------------------------------------------------------------------
(* The life of the issues of one user: every command that saves an issue.  *)

OpenOwn == \E t \in SUBSET {"bug"}, b \in {<<>>, <<<<"1">>>>} : cmd_open("d1", t, b, 0)

EditOwn ==
    \E a \in Numbers, d \in Descriptions \cup {""}, t \in SUBSET {"bug"}, r \in SUBSET {"bug"} :
        cmd_edit(a, d, t, r)

ReopenOwn == \E a \in Numbers : cmd_reopen(a)

FixedOwn == \E a \in Numbers : cmd_fixed(a, "", 0)

BlockedByOwn == \E a \in Numbers, b \in Numbers : cmd_blocked_by(a, b)

UnblockOwn == \E a \in Numbers, b \in Numbers : cmd_unblock(a, b)

NextIssue ==
    \/ OpenOwn /\ Bounded
    \/ EditOwn /\ Bounded
    \/ ReopenOwn /\ Bounded
    \/ FixedOwn /\ Bounded
    \/ BlockedByOwn /\ Bounded
    \/ UnblockOwn /\ Bounded

SpecIssue == Init /\ [][NextIssue]_vars

-----------------------------------------------------------------------------
(* Opening issues: two users, any description, tags and blocking issues.   *)

\* the arguments of open --blocked-by: none, one or two references
OpenArgs == BlockArgs \cup {<<<<"1">>, <<"2">>>>, <<<<"1">>, <<"b", "1">>>>}

OpenAny == \E t \in {{}, {"bug", "ui"}}, b \in OpenArgs : cmd_open("d1", t, b, 0)

EditOne == cmd_edit(<<"1">>, "d2", {}, {})

NextOpen ==
    \/ Home
    \/ Configure
    \/ OpenAny /\ Bounded
    \/ EditOne /\ Bounded

SpecOpen == Init /\ [][NextOpen]_vars

-----------------------------------------------------------------------------
(* The tag registry: two users open tagged issues and edit the registry.   *)

OpenTagged == \E t \in {{}, {"bug"}, {"bug", "ui"}} : cmd_open("d1", t, <<>>, 0)

TagAdd == \E t \in SUBSET Tags : cmd_tag_add(t)

TagRemove ==
    \E t \in SUBSET Tags :
        \E order \in Orders(t \cap registry) : cmd_tag_remove(t, order)

TagEdit == \E o \in Tags, n \in Tags : cmd_tag_edit(o, n)

\* the answers typed at a prompt
Answers == {"y", "Yes", "n", ""}

\* the seconds begun when the n-th issue of an order is saved, gaps[j] of
\* them between the j-th save and the next
RECURSIVE begun(_, _)
begun(gaps, n) == IF n <= 1 THEN 0 ELSE begun(gaps, n - 1) + gaps[n - 1]

\* the seconds at which the issues of a waiting command may come to be saved
\* by an answer: none is saved by a decline or before the last question
Lateness(w, response) ==
    IF declined(response) \/ w.k < Len(w.asked) THEN {<<>>} ELSE
    {[id \in saved_ids(w) |-> begun(gaps, CHOOSE n \in 1..Len(order) : order[n] = id)] :
        order \in load_orders(saved_ids(w)),
        gaps \in [1..(Cardinality(saved_ids(w)) - 1) -> Lates]}

TagAnswer ==
    \E w \in BagToSet(waiting), response \in Answers :
        \E late \in Lateness(w, response) : tag_answer(w, response, late)

\* no command waits at a prompt
Quiet == waiting = NoWait

\* while a tag command waits at its prompt, issues are opened and tags are
\* registered from another terminal
NextTag ==
    \/ Home /\ Quiet
    \/ OpenTagged /\ Bounded
    \/ TagAdd
    \/ Quiet /\ TagRemove
    \/ Quiet /\ TagEdit
    \/ TagAnswer /\ Bounded

SpecTag == Init /\ [][NextTag]_vars

-----------------------------------------------------------------------------
(* The prompts: on the issues of one user, which carry tags, several tag   *)
(* commands come to wait from several terminals and are answered in any    *)
(* order.                                                                  *)

OpenBug == \E t \in {{"bug"}, {"bug", "ui"}} : cmd_open("d1", t, <<>>, 0)

TagAddSome == \E t \in {{"bug"}, {"bug", "ui"}} : cmd_tag_add(t)

TagRemoveSome ==
    \E t \in {{"bug"}, {"bug", "ui"}} :
        \E order \in Orders(t \cap registry) : cmd_tag_remove(t, order)

TagRename == cmd_tag_edit("bug", "ui")

\* the commands waiting at a prompt stay within the bound of the model
Waits == BagCardinality(waiting') <= MaxWaiting

NextPrompt ==
    \/ Quiet /\ OpenBug /\ Bounded
    \/ Quiet /\ TagAddSome
    \/ TagRemoveSome /\ Waits
    \/ TagRename /\ Waits
    \/ TagAnswer /\ Bounded

SpecPrompt == Init /\ [][NextPrompt]_vars

-----------------------------------------------------------------------------
(* Closing and reopening: one user, with and without a comment, while time *)
(* passes.                                                                 *)

OpenPlain == \E late \in Lates : cmd_open("d1", {}, <<>>, late)

FixedNote ==
    \E a \in Numbers, m \in Messages \cup {""}, late \in Lates : cmd_fixed(a, m, late)

WontfixNote ==
    \E a \in Numbers, m \in Messages \cup {""}, late \in Lates : cmd_wontfix(a, m, late)

\* the time zones commands are run in: New York, UTC, Stockholm, in winter
Zones == {-18000, 0, 3600}

\* the next command is run with TZ set to another zone
Zone ==
    /\ zone' \in Zones
    /\ last' = Done("zone", "", {}, <<>>)
    /\ UNCHANGED <<user, issues, comments, tags_file, registry, clock, waiting>>

NextStatus ==
    \/ OpenPlain /\ Bounded
    \/ FixedNote /\ Bounded
    \/ WontfixNote /\ Bounded
    \/ ReopenOwn /\ Bounded
    \/ Tick
    \/ Zone /\ zone = 0

SpecStatus == Init /\ [][NextStatus]_vars

-----------------------------------------------------------------------------
(* Every command that writes, by two users, each with one form of its      *)
(* arguments.                                                              *)

OpenOne == \E t \in {{}, {"bug"}}, b \in {<<>>, <<<<"a", "1">>>>} : cmd_open("d1", t, b, 0)

EditTags == \E t \in {{}, {"ui"}} : cmd_edit(<<"1">>, "d2", t, {"bug"})

ReopenOne == cmd_reopen(<<"1">>)

FixedOne == cmd_fixed(<<"1">>, "", 0)

WontfixOne == cmd_wontfix(<<"a", "1">>, "", 0)

BlockedByOne == \E b \in {<<"2">>, <<"a", "1">>} : cmd_blocked_by(<<"1">>, b)

UnblockOne == \E b \in {<<"2">>, <<"a", "1">>} : cmd_unblock(<<"1">>, b)

CommentOne == cmd_comment(<<"1">>, "m1")

TagAddOne == cmd_tag_add({"bug"})

TagRemoveOne ==
    \E order \in Orders({"bug"} \cap registry) : cmd_tag_remove({"bug"}, order)

TagEditOne == cmd_tag_edit("bug", "ui")

\* a removal or a rename of the tag bug saves several issues of two users,
\* one after the other while time passes, and issues are opened while it
\* waits at its prompt
NextSaves ==
    \/ Quiet /\ Home
    \/ OpenTagged /\ Bounded
    \/ Quiet /\ TagAddOne
    \/ Quiet /\ TagRemoveOne
    \/ Quiet /\ TagEditOne
    \/ TagAnswer /\ BoundedStore

SpecSaves == Init /\ [][NextSaves]_vars

TagConfirm ==
    \E w \in BagToSet(waiting) : tag_answer(w, "y", [id \in saved_ids(w) |-> 0])

\* while a tag command waits at its prompt, issues are edited from another
\* terminal
NextLife ==
    \/ Home /\ Quiet
    \/ OpenOne /\ Bounded /\ Quiet
    \/ EditTags /\ Bounded
    \/ ReopenOne /\ Bounded /\ Quiet
    \/ FixedOne /\ Bounded /\ Quiet
    \/ WontfixOne /\ Bounded /\ Quiet
    \/ BlockedByOne /\ Bounded /\ Quiet
    \/ UnblockOne /\ Bounded /\ Quiet
    \/ CommentOne /\ Bounded /\ Quiet
    \/ TagAddOne /\ Quiet
    \/ Quiet /\ TagRemoveOne
    \/ Quiet /\ TagEditOne
    \/ TagConfirm /\ Bounded

SpecLife == Init /\ [][NextLife]_vars

\* the stored blocking graph: the issues an issue is blocked by
blocked_by_of(id) == Issue_load(id).blocked_by

\* C1: in every state reached by open (with or without --blocked-by), blocked
\* and unblock, no issue is in its own blocked_by set, and no two issues are
\* each in the blocked_by set of the other.
C1_NoSelfEdgeNoTwoCycle ==
    \A a \in DOMAIN issues :
        /\ a \notin blocked_by_of(a)
        /\ \A b \in blocked_by_of(a) \cap DOMAIN issues : a \notin blocked_by_of(b)

\* an edge added by blocked, from an issue of one user to an issue of another
C1_Witness ==
    /\ last.op = "blocked" /\ last.result = "blocked"
    /\ \E a \in last.saved : \E b \in blocked_by_of(a) : b.user # a.user

\* C2: when B is in A.blocked_by, addBlockedBy(B, A) fails with BlockingLoop
\* and leaves every stored record as it was.
C2_ReverseEdgeRejected ==
    [][\A a \in OwnArgs, b \in Tokens :
          LET B == arg_issue_id(a, TRUE)
              A == arg_issue_id(b, FALSE)
          IN  (/\ last'.op = "blocked"
               /\ B.ok /\ A.ok /\ A.id # B.id
               /\ B.id \in blocked_by_of(A.id)
               /\ cmd_blocked_by(a, b))
              => (last'.result = "BlockingLoop" /\ UNCHANGED store)]_vars

\* a rejected call, right after the call that added the edge the other way
C2_Witness ==
    /\ last.op = "blocked" /\ last.result = "BlockingLoop"
    /\ \E a \in DOMAIN issues : \E e \in Range(issues[a].log) : "blocked_by" \in DOMAIN e

\* C3: addBlockedBy(A, A) fails with SelfBlock for every existing issue A and
\* leaves every stored record as it was.
C3_SelfBlockRejected ==
    [][\A a \in OwnArgs, b \in Tokens :
          LET B == arg_issue_id(a, TRUE)
              A == arg_issue_id(b, FALSE)
          IN  (/\ last'.op = "blocked"
               /\ B.ok /\ A.ok /\ A.id = B.id
               /\ cmd_blocked_by(a, b))
              => (last'.result = "SelfBlock" /\ UNCHANGED store)]_vars

\* a rejected self-block of an issue that is blocked and blocks another
C3_Witness ==
    /\ last.op = "blocked" /\ last.result = "SelfBlock"
    /\ \E a \in DOMAIN issues :
          /\ a.user = user
          /\ blocked_by_of(a) # {}
          /\ \E b \in DOMAIN issues : a \in blocked_by_of(b)

-----------------------------------------------------------------------------
(* The resolver: a command prints the abbreviated id of a stored issue and *)
(* the text printed is typed as the reference of the next command.  The    *)
(* stores are those of up to MaxUsers users, named by up to MaxNameLen     *)
(* letters, each with issues numbered from 1.                              *)

Names == UNION {[1..n -> Letters] : n \in 1..MaxNameLen}

\* the sets of at most k names
RECURSIVE UpTo(_)
UpTo(k) ==
    IF k = 0 THEN {{}}
    ELSE UpTo(k - 1) \cup {S \cup {x} : S \in UpTo(k - 1), x \in Names}

\* the file of an issue opened with a description and nothing else
plain_issue(id) ==
    [id          |-> id.num,
     user        |-> id.user,
     created     |-> 0,
     updated     |-> 0,
     description |-> "d1",
     tags        |-> <<>>,
     blocked_by  |-> {},
     status      |-> StatusValue("OPEN"),
     log         |-> <<>>]

\* the store in which each user of U has opened n issues
store_of(U, n) == [id \in {IssueID(u, k) : u \in U, k \in 1..n} |-> plain_issue(id)]

\* what is printed for an id and what the text printed resolves to
Referred(id, text) ==
    [text |-> text, id |-> id, op |-> "refer",
     loaded |-> IssueID_load(user, text, FALSE)]

InitResolve ==
    /\ \E U \in UpTo(MaxUsers) \ {{}}, n \in {1, MaxNum} :
          /\ issues = store_of(U, n)
          /\ user \in U \cup {<<"b", "a">>}
    /\ comments = {}
    /\ tags_file = FALSE
    /\ registry = {}
    /\ clock = 0
    /\ zone = 0
    /\ waiting = NoWait
    /\ last = Done("init", "", {}, <<>>)

\* s_blocking_id = f'#{blocking_id.shorten(config)}', then _arg_issue_id
Refer ==
    \E id \in DOMAIN issues :
       /\ id.num \in {1, MaxNum}
       /\ last' = Referred(id, IssueID_shorten(id, user, usernames))
       /\ UNCHANGED <<user, issues, comments, tags_file, registry, clock, zone, waiting>>

NextResolve == Refer

SpecResolve == InitResolve /\ [][NextResolve]_vars

\* C4: for every set of known users, acting user and stored issue of a known
\* user, the abbreviated id resolves to the id it abbreviates, with no error.
C4_ShortenThenResolve ==
    last.op = "refer" =>
        /\ last.loaded.ok
        /\ last.loaded.id = last.id

\* a three-letter user abbreviated to one letter by another user, while a
\* second known user starts with another letter, on a two-digit number
C4_Witness ==
    /\ last.op = "refer"
    /\ last.id.user # user
    /\ Len(last.id.user) = 3
    /\ last.id.num >= 10
    /\ Len(last.text) = 1 + Len(IntToStr(last.id.num))
    /\ Cardinality(usernames) > 1

-----------------------------------------------------------------------------
\* the fields of a stored document that differ from those of another
doc_changes(old, new) == {k \in LogFields : old[k] # new[k]}

\* the log of `new` is the log of `old` and one entry: the values `old` had
\* for the fields of K, and a timestamp
logs_previous(old, new, K) ==
    /\ Len(new.log) = Len(old.log) + 1
    /\ SubSeq(new.log, 1, Len(old.log)) = old.log
    /\ DOMAIN new.log[Len(new.log)] = K \cup {"timestamp"}
    /\ \A k \in K : new.log[Len(new.log)][k] = old[k]

\* C5: a save of an issue whose four fields are as they were loaded appends
\* no log entry; any other save appends exactly one entry, whose keys are the
\* changed fields and timestamp, and whose values are the previous ones.
C5_SaveLogsPreviousValues ==
    [][\A id \in last'.saved :
          IF id \in DOMAIN issues
          THEN IF doc_changes(issues[id], issues'[id]) = {}
               THEN issues'[id].log = issues[id].log
               ELSE logs_previous(issues[id], issues'[id],
                                  doc_changes(issues[id], issues'[id]))
          ELSE issues'[id].log = <<>>]_vars

\* an edit that changed the description and the tags at once
C5_Witness ==
    /\ last.op = "edit" /\ last.result = "Issue edited"
    /\ \E id \in last.saved :
          /\ issues[id].log # <<>>
          /\ DOMAIN issues[id].log[Len(issues[id].log)]
                = {"description", "tags", "timestamp"}

\* the waiting command w finds the store as it loaded it: no other command
\* has written since
store_as_loaded(w) == w.issues = load_issues /\ w.tag_registry = registry

\* C6: a tag remove or a tag rename in which a confirmation is declined
\* changes neither the registry nor any issue, whatever was answered before:
\* the command writes nothing when it asks, nothing when an answer brings the
\* next question, and an answer that is no yes ends it with nothing written.
C6_DeclineChangesNothing ==
    [][/\ \A t \in SUBSET Tags :
            \A order \in Orders(t \cap registry) :
               (/\ last'.op = "tag remove" /\ last'.result = "asked"
                /\ cmd_tag_remove(t, order))
               => UNCHANGED <<issues, comments, registry>>
       /\ \A o \in Tags, n \in Tags :
               (/\ last'.op = "tag edit" /\ last'.result = "asked"
                /\ cmd_tag_edit(o, n))
               => UNCHANGED <<issues, comments, registry>>
       /\ \A w \in BagToSet(waiting), response \in Answers :
               (/\ last'.result = "asked"
                /\ Len(last'.prompts) = w.k + 1
                /\ \E late \in Lateness(w, response) : tag_answer(w, response, late))
               => UNCHANGED <<issues, comments, registry>>
       /\ \A w \in BagToSet(waiting), response \in {"n", ""} :
               (/\ Len(last'.prompts) = w.k
                /\ \E late \in Lateness(w, response) : tag_answer(w, response, late))
               => /\ last'.result = "aborted"
                  /\ BagCardinality(waiting') = BagCardinality(waiting) - 1
                  /\ UNCHANGED <<issues, comments, registry>>]_vars

\* a removal of two tags in use, the first confirmed and the second declined,
\* while another tag command waits
C6_Witness ==
    /\ last.op = "tag remove" /\ last.result = "aborted"
    /\ Len(last.prompts) = 2
    /\ waiting # NoWait

\* what a removal of the tags S, all registered, leaves
removes_tags(S) ==
    /\ registry' = registry \ S
    /\ DOMAIN issues' = DOMAIN issues
    /\ \A id \in DOMAIN issues :
          /\ Range(issues'[id].tags) = Range(issues[id].tags) \ S
          /\ IF Range(issues[id].tags) \cap S # {}
             THEN /\ id \in last'.saved
                  /\ logs_previous(issues[id], issues'[id], {"tags"})
             ELSE /\ id \notin last'.saved
                  /\ issues'[id] = issues[id]

\* C7: a confirmed removeTags(S) takes the registered tags of S out of the
\* registry and out of every issue; an issue that carried one is saved with one
\* new log entry holding its previous tags, any other issue is not written.
\* A removal that asked is confirmed by the yes to its last question, and
\* is taken here when no other command has written while it waited.
C7_RemoveTags ==
    [][/\ \A t \in SUBSET Tags :
            \A order \in Orders(t \cap registry) :
               (/\ last'.op = "tag remove" /\ last'.result = "removed"
                /\ cmd_tag_remove(t, order))
               => removes_tags(t \cap registry)
       /\ \A w \in BagToSet(waiting), response \in Answers :
               (/\ w.op = "tag remove"
                /\ last'.result = "removed"
                /\ store_as_loaded(w)
                /\ \E late \in Lateness(w, response) : tag_answer(w, response, late))
               => removes_tags(w.matched_tags)]_vars

\* a removal, confirmed at its prompt, that rewrote two issues, a second
\* beginning between the two saves, and left another issue alone
C7_Witness ==
    /\ last.op = "tag remove" /\ last.result = "removed"
    /\ last.prompts # <<>>
    /\ \E a \in last.saved, b \in last.saved : issues[a].updated < issues[b].updated
    /\ \E id \in DOMAIN issues : id \notin last.saved

\* C8: renameTag(old, new) fails when old = new, when old is not registered
\* or when new is registered, and then changes neither registry nor issues.
C8_RenameRejected ==
    [][\A o \in Tags, n \in Tags :
          (/\ last'.op = "tag edit"
           /\ (o = n \/ o \notin registry \/ n \in registry)
           /\ cmd_tag_edit(o, n))
          => /\ last'.result \in {"SameName", "UnknownTag", "TagExists"}
             /\ UNCHANGED <<issues, comments, registry>>]_vars

\* a rename to a name that is registered, of a tag that issues carry
C8_Witness ==
    /\ last.op = "tag edit" /\ last.result = "TagExists"
    /\ \E id \in DOMAIN issues : Range(issues[id].tags) \cap registry # {}

\* what a rename of the tag o to n leaves
renames_tag(o, n) ==
    /\ n \in registry' /\ o \notin registry'
    /\ DOMAIN issues' = DOMAIN issues
    /\ \A id \in DOMAIN issues :
          /\ o \notin Range(issues'[id].tags)
          /\ IF o \in Range(issues[id].tags)
             THEN n \in Range(issues'[id].tags)
             ELSE issues'[id].tags = issues[id].tags

\* C9: after a successful renameTag(old, new) the registry holds new and not
\* old, no issue carries old, every issue that carried old carries new, and
\* the tags of the other issues are as before.  A rename that asked succeeds
\* with the yes to its question, and is taken here when no other command has
\* written while it waited.
C9_RenameTag ==
    [][/\ \A o \in Tags, n \in Tags :
            (/\ last'.op = "tag edit" /\ last'.result = "renamed"
             /\ cmd_tag_edit(o, n))
            => renames_tag(o, n)
       /\ \A w \in BagToSet(waiting), response \in Answers :
            (/\ w.op = "tag edit"
             /\ last'.result = "renamed"
             /\ store_as_loaded(w)
             /\ \E late \in Lateness(w, response) : tag_answer(w, response, late))
            => \A o \in w.matched_tags : renames_tag(o, w.new_name)]_vars

\* a confirmed rename that rewrote an issue of each user and left another
\* issue alone
C9_Witness ==
    /\ last.op = "tag edit" /\ last.result = "renamed"
    /\ last.prompts # <<>>
    /\ \E a \in last.saved, b \in last.saved : a.user # b.user
    /\ \E id \in DOMAIN issues : id \notin last.saved

\* C10: open by the acting user creates the issue numbered one more than the
\* largest number among that user's issues (1 when there is none), OPEN, with
\* an empty log and the tags and blocking issues given, and changes no other
\* record.
C10_OpenCreatesNext ==
    [][\A t \in SUBSET Tags, b \in OpenArgs, d \in Descriptions :
          (/\ last'.op = "open" /\ last'.result = "opened"
           /\ cmd_open(d, t, b, 0))
          => LET own == {id \in DOMAIN issues : id.user = user}
                 new == IssueID(user, 1 + Max({id.num : id \in own} \cup {0}))
             IN  /\ new \notin DOMAIN issues
                 /\ DOMAIN issues' = DOMAIN issues \cup {new}
                 /\ last'.saved = {new}
                 /\ issues'[new].status = "open"
                 /\ issues'[new].log = <<>>
                 /\ issues'[new].description = d
                 /\ Range(issues'[new].tags) = t
                 /\ decode_blocks(issues'[new].blocked_by)
                       = {arg_issue_id(b[n], FALSE).id : n \in 1..Len(b)}
                 /\ \A id \in DOMAIN issues : issues'[id] = issues[id]
                 /\ UNCHANGED <<comments, registry>>]_vars

\* a first issue of a user, tagged and blocked by an issue of another user
\* who has more issues
C10_Witness ==
    /\ last.op = "open" /\ last.result = "opened"
    /\ \E new \in last.saved :
          /\ new.num = 1
          /\ issues[new].tags # <<>>
          /\ \E b \in decode_blocks(issues[new].blocked_by) : b.user # new.user
          /\ \E id \in DOMAIN issues : id.num = 2

-----------------------------------------------------------------------------
(* Resolving typed references: three users, of whom one is named by a      *)
(* prefix of the name of another, open issues and run a command that reads *)
(* the issue a reference names.                                            *)

LoadUsers == {<<"a", "b">>, <<"a", "b", "b">>, <<"b">>}

HomeLoad == \E u \in LoadUsers : Config_load(u)

\* the references typed: every prefix of a user or of none with a number,
\* and texts that are not a prefix and a number
LoadPrefixes == {<<>>, <<"a">>, <<"a", "b">>, <<"a", "b", "b">>, <<"b">>, <<"b", "a">>}

LoadTokens ==
    {p \o n : p \in LoadPrefixes, n \in Numbers}
    \cup {<<"+", "1">>, <<"-", "1">>, <<" ", "1">>, <<"0", "_", "1">>, <<"0", "1">>,
          <<"_", "1">>, <<"1", "a">>, <<"a">>, <<>>}

\* what a reference typed resolves to
Loaded(abbr_id, restrict_to_own) ==
    [op |-> "load", loaded |-> IssueID_load(user, abbr_id, restrict_to_own),
     token |-> abbr_id, restrict |-> restrict_to_own]

\* issue_id = _arg_issue_id(args, config) of a command that reads
Resolve ==
    \E t \in LoadTokens, r \in BOOLEAN :
       /\ last' = Loaded(t, r)
       /\ UNCHANGED <<user, issues, comments, tags_file, registry, clock, zone, waiting>>

NextLoad ==
    \/ HomeLoad
    \/ OpenPlain /\ Bounded
    \/ Resolve

SpecLoad == Init /\ [][NextLoad]_vars

\* the letters a reference starts with and what follows them
letters_of(t) == SelectSeq(t, LAMBDA c : c \in Letters)

rest_of(t) == SelectSeq(t, LAMBDA c : c \notin Letters)

\* a reference made of letters, or none, and then one digit at least
well_formed(t) ==
    /\ t = letters_of(t) \o rest_of(t)
    /\ rest_of(t) # <<>>
    /\ \A i \in 1..Len(rest_of(t)) : rest_of(t)[i] \in Digits

\* the known users whose name starts with the letters of a reference
starting_with(p) ==
    {u \in usernames : Len(u) >= Len(p) /\ SubSeq(u, 1, Len(p)) = p}

\* C14: a prefix that is no known user resolves to the one known user that
\* starts with it; with no such user the error is UnknownUser, with several
\* it is AmbiguousUser and names them all.
C14_AbbreviatedUser ==
    (/\ last.op = "load" /\ ~last.restrict
     /\ well_formed(last.token)
     /\ letters_of(last.token) # <<>>
     /\ letters_of(last.token) \notin usernames)
    => LET cands == starting_with(letters_of(last.token))
       IN  /\ cands = {} => ~last.loaded.ok /\ last.loaded.err = "UnknownUser"
           /\ Cardinality(cands) > 1 =>
                 /\ ~last.loaded.ok /\ last.loaded.err = "AmbiguousUser"
                 /\ last.loaded.candidates = cands
           /\ Cardinality(cands) = 1 =>
                 \/ last.loaded.ok /\ last.loaded.id.user \in cands
                 \/ ~last.loaded.ok /\ last.loaded.err = "NotFound"

\* a prefix that two known users start with
C14_Witness ==
    /\ last.op = "load" /\ ~last.restrict
    /\ last.loaded.err = "AmbiguousUser"
    /\ Cardinality(last.loaded.candidates) = 2
    /\ Cardinality(usernames) = 3

\* C15: a prefix that is a known user resolves to that user, whatever other
\* known users start with it.
C15_ExactUser ==
    (/\ last.op = "load" /\ ~last.restrict
     /\ well_formed(last.token)
     /\ letters_of(last.token) \in usernames)
    => LET id == IssueID(letters_of(last.token), DigitsToInt(rest_of(last.token)))
       IN  IF id \in DOMAIN issues
           THEN last.loaded.ok /\ last.loaded.id = id
           ELSE ~last.loaded.ok /\ last.loaded.err = "NotFound"

\* the name of a user that the name of another user starts with
C15_Witness ==
    /\ last.op = "load" /\ last.loaded.ok
    /\ letters_of(last.token) = last.loaded.id.user
    /\ Cardinality(starting_with(letters_of(last.token))) = 2

\* C16: an id is returned only for an issue in the store; a number the user
\* resolved has no issue of ends with NotFound.
C16_ResolvedExists ==
    last.op = "load" =>
        /\ last.loaded.ok => last.loaded.id \in DOMAIN issues
        /\ (/\ well_formed(last.token)
            /\ letters_of(last.token) = <<>>
            /\ IssueID(user, DigitsToInt(last.token)) \notin DOMAIN issues)
           => ~last.loaded.ok /\ last.loaded.err = "NotFound"
        /\ (/\ well_formed(last.token) /\ ~last.restrict
            /\ Cardinality(starting_with(letters_of(last.token))) = 1
            /\ \A u \in starting_with(letters_of(last.token)) :
                  IssueID(u, DigitsToInt(rest_of(last.token))) \notin DOMAIN issues)
           => ~last.loaded.ok /\ last.loaded.err = "NotFound"

\* a number that another user has an issue of and the acting user has not
C16_Witness ==
    /\ last.op = "load" /\ last.restrict
    /\ last.loaded.err = "NotFound"
    /\ well_formed(last.token)
    /\ \E id \in DOMAIN issues : id.num = DigitsToInt(last.token) /\ id.user # user

\* C17: a reference to an issue of one's own resolves to an id of the acting
\* user when it is a run of digits, and to no issue when it is anything else.
C17_OwnDigitsOnly ==
    (last.op = "load" /\ last.restrict)
    => IF well_formed(last.token) /\ letters_of(last.token) = <<>>
       THEN last.loaded.ok => last.loaded.id.user = user
       ELSE ~last.loaded.ok

\* C18: an id is shown as its number, after nothing when it is the acting
\* user's, and else after the shortest prefix of one letter to all but one
\* that one known user starts with, or after the whole name when there is
\* none.
C18_ShortestPrefix ==
    last.op = "refer" =>
        LET id     == last.id
            unique == {i \in 1..(Len(id.user) - 1) :
                          Cardinality(starting_with(SubSeq(id.user, 1, i))) = 1}
            prefix == IF id.user = user THEN <<>>
                      ELSE IF unique = {} THEN id.user
                      ELSE SubSeq(id.user, 1, Min(unique))
        IN  last.text = prefix \o IntToStr(last.id.num)

-----------------------------------------------------------------------------
(* Listing: one user opens issues, tagged and blocked, closes and reopens  *)
(* them, and lists them through filters.                                   *)

OpenListed ==
    \E t \in {{}, {"ui"}, {"bug", "ui"}}, b \in {<<>>, <<<<"1">>>>} : cmd_open("d1", t, b, 0)

\* the flags --blocked, --blocking and --no-blocks given together
ListFlags ==
    {<<FALSE, FALSE, FALSE>>, <<FALSE, FALSE, TRUE>>, <<TRUE, FALSE, TRUE>>}

List ==
    \E st \in {"", "CLOSED"}, t \in {{}, {"ui"}},
       w \in {{}, {"bug"}, {"bug", "ui"}}, f \in ListFlags :
        cmd_list(ListArgs(st, t, w, f[1], f[2], f[3]))

NextList ==
    \/ OpenListed /\ Bounded
    \/ FixedOne /\ Bounded
    \/ List

SpecList == Init /\ [][NextList]_vars

\* the tags an issue file holds
tags_of(id) == Range(issues[id].tags)

\* C20: a listing without the tags of W shows no issue that carries a tag of
\* W, and shows an issue that carries none exactly when the same listing
\* with no W shows it.
C20_WithoutTags ==
    (last.op = "list" /\ last.result = "listed" /\ last.args.without_tags # {})
    => /\ \A id \in last.rows : tags_of(id) \cap last.args.without_tags = {}
       /\ \A id \in DOMAIN issues :
             tags_of(id) \cap last.args.without_tags = {} =>
                (id \in last.rows <=>
                    id \in list_rows([last.args EXCEPT !.without_tags = {}]))

\* a listing without one tag, of an issue that carries it among others and of
\* an issue that carries another tag only and is shown
C20_Witness ==
    /\ last.op = "list" /\ last.result = "listed"
    /\ last.args.without_tags = {"bug"}
    /\ \E id \in DOMAIN issues : tags_of(id) = {"bug", "ui"}
    /\ \E id \in last.rows : tags_of(id) = {"ui"}

-----------------------------------------------------------------------------
\* the numbers of the issues a user has in the store
numbers_of(u) == {id.num : id \in {x \in DOMAIN issues : x.user = u}}

\* C11: over any sequence of commands no issue file goes away, every file
\* holds the user and number of its path, an open takes a number larger than
\* every number its user has, and an open leaves every existing file as it
\* was.
C11_NumbersNeverReused ==
    [][/\ DOMAIN issues \subseteq DOMAIN issues'
       /\ \A id \in DOMAIN issues' :
             /\ issues'[id].id = id.num /\ issues'[id].user = id.user
             /\ id \notin DOMAIN issues =>
                   \A n \in numbers_of(id.user) : id.num > n
       /\ last'.op = "open" => \A id \in DOMAIN issues : issues'[id] = issues[id]]_vars

\* a second issue of a user, opened while another user has an issue
C11_Witness ==
    /\ last.op = "open" /\ last.result = "opened"
    /\ \E id \in last.saved :
          /\ id.num = 2
          /\ \E other \in DOMAIN issues : other.user # id.user

\* what a change of status to a value leaves behind: the issue with that
\* status and nothing else of it changed but log and time of update, the
\* other issues as they were, and one new comment file when a message is given
status_set(id, value, message) ==
    /\ DOMAIN issues' = DOMAIN issues
    /\ issues'[id].status = value
    /\ doc_changes(issues[id], issues'[id]) = {"status"}
    /\ \A other \in DOMAIN issues \ {id} : issues'[other] = issues[other]
    /\ IF message = "" THEN comments' = comments
       ELSE \E f \in comments' \ comments :
               /\ comments' = comments \cup {f}
               /\ f.issue = id
               /\ Comment_load(f).message = message
               /\ Comment_load(f).user = user
    /\ registry' = registry

\* what a command run on an issue that may have the status already leaves
status_command(id, value, message) ==
    IF issues[id].status = value
    THEN last'.result = "already" /\ UNCHANGED store
    ELSE last'.result = "changed" /\ status_set(id, value, message)

\* C12: fixed, wontfix and reopen on an issue of another status store the
\* new status, and fixed and wontfix add exactly one comment with the message
\* when one is given; on an issue that has the status already they report so
\* and change nothing, message or not.
C12_StatusChange ==
    [][\A a \in Numbers, m \in Messages \cup {""}, late \in Lates :
          LET r == arg_issue_id(a, FALSE)
          IN  /\ (/\ last'.op = "fixed" /\ r.ok /\ cmd_fixed(a, m, late))
                    => status_command(r.id, "fixed", m)
              /\ (/\ last'.op = "wontfix" /\ r.ok /\ cmd_wontfix(a, m, late))
                    => status_command(r.id, "wontfix", m)
              /\ (/\ last'.op = "reopen" /\ r.ok /\ cmd_reopen(a))
                    => status_command(r.id, "open", "")]_vars

\* a fixed on an issue that a fixed with a message has closed
C12_Witness ==
    /\ last.op = "fixed" /\ last.result = "already"
    /\ \E f \in comments :
          /\ f.doc.message = "m1"
          /\ issues[f.issue].status = "fixed"

\* C13: no issue file holds the status closed: the stored status is open,
\* fixed or wontfix.
C13_NeverStoredClosed ==
    \A id \in DOMAIN issues :
        /\ issues[id].status \in {"open", "fixed", "wontfix"}
        /\ \A n \in 1..Len(issues[id].log) :
              "status" \in DOMAIN issues[id].log[n] =>
                  issues[id].log[n].status \in {"open", "fixed", "wontfix"}

\* an issue closed as fixed and reopened
C13_Witness ==
    /\ last.op = "reopen" /\ last.result = "changed"
    /\ \E id \in last.saved :
          /\ Len(issues[id].log) = 2
          /\ issues[id].log[2].status = "fixed"

\* the waiting tag command saves what it loaded over what another command
\* has written since
stale_save ==
    \E w \in BagToSet(waiting) :
        /\ ~store_as_loaded(w)
        /\ last'.result \in {"removed", "renamed"}
        /\ last'.prompts # <<>>
        /\ waiting' = waiting (-) SetToBag({w})

\* C19: a command leaves the log of every issue as it was or with one more
\* entry at its end, the commands running one at a time: a tag command that
\* waited while another command wrote is left out.
C19_LogAppendOnly ==
    [][~stale_save => \A id \in DOMAIN issues :
          /\ id \in DOMAIN issues'
          /\ Len(issues'[id].log) \in {Len(issues[id].log), Len(issues[id].log) + 1}
          /\ SubSeq(issues'[id].log, 1, Len(issues[id].log)) = issues[id].log]_vars

\* an issue whose log holds two entries, of different fields
C19_Witness ==
    \E id \in DOMAIN issues :
        /\ Len(issues[id].log) = 2
        /\ DOMAIN issues[id].log[1] # DOMAIN issues[id].log[2]

-----------------------------------------------------------------------------
(* cmd_tag --list (src/ishu/ishu.py 784-802).                              *)

\* Counter(t for issue in issues for t in issue.tags), updated with 0 for
\* the registered tags no issue carries
issue_tags(all, tag_registry) ==
    [t \in UNION {i.tags : i \in all} \cup tag_registry |->
        Cardinality({i \in all : t \in i.tags})]

\* sorted(issue_tags.most_common()): the (name, count) pairs, by name
sorted_items(counts) ==
    LET names == sorted(DOMAIN counts)
    IN  [k \in 1..Len(names) |-> <<names[k], counts[names[k]]>>]

\* a sort that would put a row before the rows of its own count
insert_before_ties(row, rows) ==
    LET k == Cardinality({j \in 1..Len(rows) : rows[j][2] > row[2]})
    IN  SubSeq(rows, 1, k) \o <<row>> \o SubSeq(rows, k + 1, Len(rows))

\* one step of the stable sort by descending count: the row goes after the
\* sorted rows of a count at least its own
insert_by_count(row, rows) ==
    LET k == Cardinality({j \in 1..Len(rows) : rows[j][2] >= row[2]})
    IN  SubSeq(rows, 1, k) \o <<row>> \o SubSeq(rows, k + 1, Len(rows))

\* sorted(..., key=itemgetter(1), reverse=True): rows of equal count keep
\* the order they came in
RECURSIVE sorted_by_count(_)
sorted_by_count(rows) ==
    IF rows = <<>> THEN <<>>
    ELSE insert_by_count(rows[Len(rows)],
                         sorted_by_count(SubSeq(rows, 1, Len(rows) - 1)))

\* tag_list.sort(): the (name, str(count)) rows in the order of their names,
\* which are all different
sort_rows(rows) ==
    LET names == sorted({rows[k][1] : k \in 1..Len(rows)})
    IN  [k \in 1..Len(rows) |-> CHOOSE r \in Range(rows) : r[1] = names[k]]

\* the rows of the table: (name, str(count))
tag_list(all, tag_registry, sort_by_usage) ==
    LET by_count == sorted_by_count(sorted_items(issue_tags(all, tag_registry)))
        rows     == [k \in 1..Len(by_count) |->
                        <<by_count[k][1], IntToStr(by_count[k][2])>>]
    IN  IF sort_by_usage THEN rows ELSE sort_rows(rows)

\* cmd_tag [--list [--usage]]: the registry file is created when missing
cmd_tag_list(sort_by_usage) ==
    /\ tags_file' = TRUE
    /\ last' = [op |-> "tag list", result |-> "listed", saved |-> {},
                prompts |-> <<>>,
                rows |-> tag_list(load_issues, registry, sort_by_usage),
                sort_by_usage |-> sort_by_usage]
    /\ UNCHANGED <<user, issues, comments, registry, clock, zone, waiting>>

-----------------------------------------------------------------------------
(* Listing the tags: one user opens tagged issues, registers tags and      *)
(* lists them.                                                             *)

OpenUsed == \E t \in SUBSET Tags : cmd_open("d1", t, <<>>, 0)

TagList == \E u \in BOOLEAN : cmd_tag_list(u)

NextTagList ==
    \/ OpenUsed /\ Bounded
    \/ TagAdd
    \/ TagList

SpecTagList == Init /\ [][NextTagList]_vars

\* the place of a tag name in the alphabetical order
place(t) == CHOOSE k \in 1..Len(TagOrder) : TagOrder[k] = t

\* the number of stored issues that carry a tag
carrying(t) == Cardinality({id \in DOMAIN issues : t \in tags_of(id)})

\* C21: the table of tags has one row for each tag that is registered or
\* carried by an issue, with the number of issues that carry it; by usage the
\* rows come by descending count and alphabetically within a count, and
\* otherwise alphabetically.
C21_TagList ==
    last.op = "tag list" =>
        LET rows == last.rows
        IN  /\ {rows[k][1] : k \in 1..Len(rows)} =
                  registry \cup UNION {tags_of(id) : id \in DOMAIN issues}
            /\ \A j, k \in 1..Len(rows) : j # k => rows[j][1] # rows[k][1]
            /\ \A k \in 1..Len(rows) : rows[k][2] = IntToStr(carrying(rows[k][1]))
            /\ \A j, k \in 1..Len(rows) :
                  j < k =>
                     IF last.sort_by_usage
                     THEN \/ carrying(rows[j][1]) > carrying(rows[k][1])
                          \/ /\ carrying(rows[j][1]) = carrying(rows[k][1])
                             /\ place(rows[j][1]) < place(rows[k][1])
                     ELSE place(rows[j][1]) < place(rows[k][1])

\* a table by usage whose first row is the later name with the higher count,
\* while the other tag is registered
C21_Witness ==
    /\ last.op = "tag list" /\ last.sort_by_usage
    /\ Len(last.rows) = 2
    /\ last.rows[1] = <<"ui", <<"2">>>>
    /\ last.rows[2][1] = "bug" /\ "bug" \in registry

-----------------------------------------------------------------------------
(* Listing by status: one user opens issues, closes them as fixed or as    *)
(* won't fix, and lists them by status and tag.                            *)

OpenEither == \E t \in {{}, {"ui"}} : cmd_open("d1", t, <<>>, 0)

WontfixOwn == \E a \in Numbers : cmd_wontfix(a, "", 0)

ListStatus ==
    \E st \in IssueStatus \cup {""}, t \in {{}, {"ui"}} :
        cmd_list(ListArgs(st, t, {}, FALSE, FALSE, FALSE))

NextFilter ==
    \/ OpenEither /\ BoundedStore
    \/ FixedOwn /\ BoundedStore
    \/ WontfixOwn /\ BoundedStore
    \/ ReopenOwn /\ BoundedStore
    \/ ListStatus

SpecFilter == Init /\ [][NextFilter]_vars

\* the status an issue file holds
status_of(id) == StatusOf(issues[id].status)

\* C22: a listing with the status filter closed shows exactly the issues the
\* same listing without a status shows and whose status is not OPEN; with
\* the filter open, fixed or wontfix, exactly those of that status.
C22_StatusFilter ==
    (last.op = "list" /\ last.result = "listed" /\ last.args.status # "")
    => LET others == list_rows([last.args EXCEPT !.status = ""])
       IN  IF last.args.status = "CLOSED"
           THEN last.rows = {id \in others : status_of(id) # "OPEN"}
           ELSE last.rows = {id \in others : status_of(id) = last.args.status}

\* a listing of the closed issues that shows a fixed one and a won't-fix one
C22_Witness ==
    /\ last.op = "list" /\ last.result = "listed"
    /\ last.args.status = "CLOSED"
    /\ \E i, j \in last.rows : status_of(i) = "FIXED" /\ status_of(j) = "WONTFIX"

-----------------------------------------------------------------------------
(* Comments: one user opens issues, comments on them, closes them with a   *)
(* note and reopens them, while time passes.                               *)

CommentOwn == \E a \in Numbers : cmd_comment(a, "m1")

NextComment ==
    \/ OpenPlain /\ Bounded
    \/ CommentOwn /\ Bounded
    \/ FixedNote /\ Bounded
    \/ ReopenOwn /\ Bounded
    \/ Tick

SpecComment == Init /\ [][NextComment]_vars

\* the file name of a comment: its directory, its stamp and its suffix
comment_name(f) == <<f.issue, f.stamp, f.suffix>>

\* C23: a command leaves every comment file as it was, and a comment that is
\* added is exactly one new file, under a name no file had.
C23_CommentsOnlyGrow ==
    [][/\ comments \subseteq comments'
       /\ Cardinality(comments' \ comments) <= 1
       /\ \A f \in comments' \ comments :
             \A g \in comments : comment_name(g) # comment_name(f)
       /\ (last'.op = "comment" /\ last'.result = "Comment added")
             => Cardinality(comments' \ comments) = 1]_vars

\* two comments saved on one issue within one second
C23_Witness ==
    /\ last.op = "comment" /\ last.result = "Comment added"
    /\ \E f, g \in comments :
          /\ f.issue = g.issue /\ f.stamp = g.stamp
          /\ f.suffix = 0 /\ g.suffix = 1

-----------------------------------------------------------------------------
\* the description and the tags an issue file holds
edit_fields(doc) == <<doc.description, doc.tags>>

\* C24: an edit saves the issue exactly when the description or the tags it
\* leaves stored differ from those stored before, and an edit reported as
\* 'Issue edited' adds exactly one entry to the log of the issue.
C24_EditSavesIffAlters ==
    [][(/\ last'.op = "edit"
        /\ last'.result \in {"Issue edited", "Nothing to update"}
        /\ last # last')
       => /\ last'.result = "Issue edited" <=> last'.saved # {}
          /\ \A id \in DOMAIN issues :
                /\ id \in last'.saved
                      <=> edit_fields(issues'[id]) # edit_fields(issues[id])
                /\ id \in last'.saved
                      => Len(issues'[id].log) = Len(issues[id].log) + 1
                /\ id \notin last'.saved => issues'[id] = issues[id]]_vars

-----------------------------------------------------------------------------
(* The blocking view: one user opens issues blocked by others, closes and  *)
(* reopens them, and lists them by the blocking flags.                     *)

OpenBehind == \E b \in {<<>>, <<<<"1">>>>, <<<<"2">>>>} : cmd_open("d1", {}, b, 0)

\* the flags --blocked, --blocking and --no-blocks given together
BlockingFlags ==
    {<<FALSE, FALSE, FALSE>>, <<TRUE, FALSE, FALSE>>, <<FALSE, TRUE, FALSE>>,
     <<TRUE, TRUE, FALSE>>, <<FALSE, FALSE, TRUE>>}

ListBlocking ==
    \E f \in BlockingFlags : cmd_list(ListArgs("", {}, {}, f[1], f[2], f[3]))

NextBlocking ==
    \/ OpenBehind /\ Bounded
    \/ FixedOwn /\ Bounded
    \/ ReopenOwn /\ Bounded
    \/ ListBlocking

SpecBlocking == Init /\ [][NextBlocking]_vars

\* the issues that have an issue in their stored blocked_by
blocked_behind(id) == {y \in DOMAIN issues : y # id /\ id \in blocked_by_of(y)}

\* C25: a listing never marks an issue that is not OPEN as blocking, and
\* never shows one under --blocking, whatever issues are blocked by it.
C25_ClosedNeverBlocking ==
    (last.op = "list" /\ last.result = "listed")
    => \A id \in DOMAIN issues :
          status_of(id) # "OPEN" =>
             /\ id \notin last.is_blocking
             /\ last.args.blocking => id \notin last.rows

\* a listing under --blocking while an open issue is blocked by a fixed one
C25_Witness ==
    /\ last.op = "list" /\ last.result = "listed" /\ last.args.blocking
    /\ \E id \in DOMAIN issues :
          /\ status_of(id) = "FIXED"
          /\ \E y \in blocked_behind(id) : status_of(y) = "OPEN"

-----------------------------------------------------------------------------
\* C26: a listing marks an issue as blocking exactly when some other issue
\* whose status is OPEN has it in its blocked_by.
C26_BlockingIffOpenBlocked ==
    (last.op = "list" /\ last.result = "listed")
    => \A id \in DOMAIN issues :
          id \in last.is_blocking
             <=> \E y \in blocked_behind(id) : status_of(y) = "OPEN"

-----------------------------------------------------------------------------
(* Blocking and unblocking: one user opens issues, some blocked from the   *)
(* start, and marks and unmarks them as blocked.                           *)

Threes == Numbers \cup {<<"3">>}

BlockedByThree == \E a \in Threes, b \in Threes : cmd_blocked_by(a, b)

UnblockThree == \E a \in Threes, b \in Threes : cmd_unblock(a, b)

NextUnblock ==
    \/ OpenBehind /\ BoundedStore
    \/ BlockedByThree /\ BoundedStore
    \/ UnblockThree /\ BoundedStore

SpecUnblock == Init /\ [][NextUnblock]_vars

\* the blocked_by an issue had before its last logged change
logged_blocked_by(id) ==
    decode_blocks(issues[id].log[Len(issues[id].log)].blocked_by)

\* the last command marked the issue A as blocked by B
just_blocked(A, B) ==
    /\ last.op = "blocked" /\ last.result = "blocked" /\ last.saved = {A}
    /\ B \notin logged_blocked_by(A)

\* C27: an unblock of A from B changes nothing when B is not in the
\* blocked_by of A, and otherwise takes exactly B out of it and leaves every
\* other issue as it was; right after the command that put B there, it
\* leaves the blocked_by of A as it was before that command.
C27_UnblockInverse ==
    [][\A a, b \in Threes :
          (/\ last'.op = "unblock"
           /\ last'.result \in {"not blocked", "unblocked"}
           /\ cmd_unblock(a, b))
          => LET A == arg_issue_id(a, TRUE).id
                 B == arg_issue_id(b, FALSE).id
             IN  IF B \notin blocked_by_of(A)
                 THEN issues' = issues /\ last'.saved = {}
                 ELSE /\ decode_blocks(issues'[A].blocked_by) = blocked_by_of(A) \ {B}
                      /\ \A id \in DOMAIN issues : id # A => issues'[id] = issues[id]
                      /\ DOMAIN issues' = DOMAIN issues
                      /\ just_blocked(A, B)
                            => decode_blocks(issues'[A].blocked_by) = logged_blocked_by(A)]_vars

\* an issue opened as blocked by another, then marked as blocked by a second
\* one and unmarked again
C27_Witness ==
    /\ last.op = "unblock" /\ last.result = "unblocked"
    /\ \E A \in last.saved :
          /\ Len(issues[A].log) = 2
          /\ "blocked_by" \in DOMAIN issues[A].log[1]
          /\ Cardinality(blocked_by_of(A)) = 1
          /\ decode_blocks(issues[A].log[1].blocked_by) = blocked_by_of(A)
          /\ Cardinality(logged_blocked_by(A)) = 2

-----------------------------------------------------------------------------
\* C28: a blocked command is refused as a blocking loop exactly when the
\* blocking issue has the blocked one in its own blocked_by; one that closes
\* a longer circle is accepted.
C28_OnlyDirectLoopRejected ==
    [][\A a, b \in Threes :
          (/\ last'.op = "blocked"
           /\ last'.result \in {"BlockingLoop", "blocked"}
           /\ cmd_blocked_by(a, b))
          => LET A == arg_issue_id(a, TRUE).id
                 B == arg_issue_id(b, FALSE).id
             IN  /\ last'.result = "BlockingLoop" <=> A \in blocked_by_of(B)
                 /\ last'.result = "blocked"
                       => B \in decode_blocks(issues'[A].blocked_by)]_vars

\* three issues blocked in a circle, closed by an accepted blocked command
C28_Witness ==
    /\ last.op = "blocked" /\ last.result = "blocked"
    /\ \E A \in last.saved : \E B, C \in DOMAIN issues :
          /\ A # B /\ B # C /\ A # C
          /\ B \in blocked_by_of(A)
          /\ C \in blocked_by_of(B)
          /\ A \in blocked_by_of(C)

-----------------------------------------------------------------------------
\* C29: every id in the stored blocked_by of an issue is the id of a stored
\* issue.
C29_BlockedByExists ==
    \A id \in DOMAIN issues : blocked_by_of(id) \subseteq DOMAIN issues

\* issues of two users, one blocked by the other's and one closed, after a
\* blocked command that was refused for an id that does not exist
C29_Witness ==
    /\ last.op = "blocked" /\ last.result = "NotFound"
    /\ \E id \in DOMAIN issues : \E b \in blocked_by_of(id) : b.user # id.user

-----------------------------------------------------------------------------
\* the issues whose file a step leaves different
rewritten == {id \in DOMAIN issues : issues'[id] # issues[id]}

\* the ids a step adds to or takes out of the blocked_by of an issue
blocked_by_change(id) ==
    LET old == decode_blocks(issues[id].blocked_by)
        new == decode_blocks(issues'[id].blocked_by)
    IN  (old \ new) \cup (new \ old)

\* C30: a blocked or unblock command changes no issue but the blocked one it
\* saved, which is an issue of the acting user; the blocking issue and every
\* issue of another user stay as they were, and no file is added.
C30_BlockFrame ==
    [][last'.op \in {"blocked", "unblock"}
       => /\ DOMAIN issues' = DOMAIN issues
          /\ comments' = comments /\ registry' = registry /\ user' = user
          /\ rewritten \subseteq last'.saved
          /\ Cardinality(last'.saved) <= 1
          /\ \A id \in last'.saved :
                /\ id.user = user
                /\ [issues'[id] EXCEPT !.blocked_by = {}, !.log = <<>>, !.updated = 0]
                      = [issues[id] EXCEPT !.blocked_by = {}, !.log = <<>>, !.updated = 0]
                /\ \A b \in blocked_by_change(id) : b # id /\ issues'[b] = issues[b]
          /\ \A id \in DOMAIN issues :
                id.user # user => blocked_by_change(id) = {}]_vars

\* a user's issue marked as blocked by an issue of another user
C30_Witness ==
    /\ last.op = "blocked" /\ last.result = "blocked"
    /\ \E A \in last.saved : \E B \in blocked_by_of(A) :
          /\ A.user = user /\ B.user # user
          /\ Len(issues[A].log) = 1

=============================================================================
